---- MODULE Spec2Model ----
(***************************************************************************)
(* Model of prim_simulator.py: the graph loader, PrimSimulator.run (lazy   *)
(* Prim over a heapq binary heap of (weight, u, v) tuples) and             *)
(* find_path_in_mst (breadth-first search over the selected edges).        *)
(*                                                                         *)
(* Vertex tokens are strings in the program; the model names a token by    *)
(* its rank in string order, so that 1 < 2 < 3 is the order Python's tuple *)
(* comparison sees.  Weights are small integers, all exactly representable *)
(* as floats, so float addition on them is exact.  Sequences are 1-based:  *)
(* heap position p of the model is list index p-1 of the program.          *)
(***************************************************************************)
EXTENDS Integers, Sequences, FiniteSets, TLC

\* ---------------------------------------------------------------- bounds
\* vertex tokens of the documents whose edge list is an arbitrary sequence
NumV == 3
\* largest edge weight
MaxW == 2
\* longest edge list of such a document
MaxEdges == 3
\* vertex tokens of the documents that declare their nodes and list a simple graph
NumSimpleV == 4
\* longest edge list handed to find_path_in_mst directly
MaxPathEdges == 3

Vertices == 1..NumV
SimpleVertices == 1..NumSimpleV
Weights == 1..MaxW

\* the value of a name that holds None
None == <<>>

SeqsUpTo(S, n) == UNION {[1..k -> S] : k \in 0..n}

RECURSIVE SumWeights(_)
\* sum of the weights of a sequence of (u, v, w) edges, left to right
SumWeights(es) ==
    IF es = <<>> THEN 0 ELSE SumWeights(SubSeq(es, 1, Len(es) - 1)) + es[Len(es)][3]

\* ----------------------------------------------------------- graph loader
AdjAppend(adj, u, item) ==
    [k \in DOMAIN adj |-> IF k = u THEN Append(adj[k], item) ELSE adj[k]]

AdjEnsure(adj, u) ==
    IF u \in DOMAIN adj THEN adj ELSE [k \in DOMAIN adj \cup {u} |-> IF k = u THEN <<>> ELSE adj[k]]

RECURSIVE LoadEdges(_, _)
LoadEdges(adj, edges) ==
    IF edges = <<>> THEN adj
    ELSE LET u == Head(edges)[1]
             v == Head(edges)[2]
             w == Head(edges)[3]
             a1 == AdjEnsure(AdjEnsure(adj, u), v)
             a2 == AdjAppend(a1, u, <<v, w>>)
             a3 == AdjAppend(a2, v, <<u, w>>)
         IN LoadEdges(a3, Tail(edges))

load_graph_from_json(nodes, edges) ==
    LoadEdges([n \in nodes |-> <<>>], edges)

\* ------------------------------------------------------------------ heapq
\* the order of tuples laid out (u, weight, v): the known vertex decides first
TupleLess_VertexFirst(a, b) ==
    \/ a[2] < b[2]
    \/ a[2] = b[2] /\ a[1] < b[1]
    \/ a[2] = b[2] /\ a[1] = b[1] /\ a[3] < b[3]

\* entries compared by weight alone
TupleLess_WeightOnly(a, b) == a[1] < b[1]

\* Python's < on (weight, u, v) tuples
TupleLess(a, b) ==
    \/ a[1] < b[1]
    \/ a[1] = b[1] /\ a[2] < b[2]
    \/ a[1] = b[1] /\ a[2] = b[2] /\ a[3] < b[3]

RECURSIVE siftdown(_, _, _, _)
\* heapq._siftdown: move newitem from pos towards startpos past larger parents
siftdown(h, newitem, startpos, pos) ==
    IF pos > startpos /\ TupleLess(newitem, h[pos \div 2])
    THEN siftdown([h EXCEPT ![pos] = h[pos \div 2]], newitem, startpos, pos \div 2)
    ELSE [h EXCEPT ![pos] = newitem]

\* the child heapq._siftup bubbles up from pos: the right one unless the left is smaller
SmallerChild(h, pos) ==
    IF 2 * pos + 1 <= Len(h) /\ ~TupleLess(h[2 * pos], h[2 * pos + 1])
    THEN 2 * pos + 1
    ELSE 2 * pos

RECURSIVE siftup_loop(_, _)
\* heapq._siftup's loop: the hole at pos sinks to a leaf; the result is <<heap, leaf>>
siftup_loop(h, pos) ==
    IF 2 * pos <= Len(h)
    THEN LET c == SmallerChild(h, pos) IN siftup_loop([h EXCEPT ![pos] = h[c]], c)
    ELSE <<h, pos>>

siftup(h, pos) ==
    LET newitem == h[pos]
        r == siftup_loop(h, pos)
    IN siftdown([r[1] EXCEPT ![r[2]] = newitem], newitem, pos, r[2])

heappush(h, item) == siftdown(Append(h, item), item, 1, Len(h) + 1)

\* heapq.heappop: <<returned item, heap afterwards>>
heappop(h) ==
    LET lastelt == h[Len(h)]
        rest == SubSeq(h, 1, Len(h) - 1)
    IN IF rest = <<>> THEN <<lastelt, rest>>
       ELSE <<rest[1], siftup([rest EXCEPT ![1] = lastelt], 1)>>

RECURSIVE PushAll(_, _)
PushAll(h, items) ==
    IF items = <<>> THEN h ELSE PushAll(heappush(h, Head(items)), Tail(items))

RECURSIVE InsertSorted(_, _)
InsertSorted(s, x) ==
    IF s = <<>> THEN <<x>>
    ELSE IF TupleLess(x, Head(s)) THEN <<x>> \o s
    ELSE <<Head(s)>> \o InsertSorted(Tail(s), x)

RECURSIVE sorted(_)
\* sorted(heap): a new list in ascending tuple order (equal tuples are identical)
sorted(h) ==
    IF h = <<>> THEN <<>> ELSE InsertSorted(sorted(SubSeq(h, 1, Len(h) - 1)), h[Len(h)])

RECURSIVE SortedSet(_)
\* sorted(list(visited))
SortedSet(S) ==
    IF S = {} THEN <<>>
    ELSE LET m == CHOOSE x \in S : \A y \in S : x <= y IN <<m>> \o SortedSet(S \ {m})

RECURSIVE RemoveFirst(_, _)
RemoveFirst(s, x) ==
    IF s = <<>> THEN <<>>
    ELSE IF Head(s) = x THEN Tail(s) ELSE <<Head(s)>> \o RemoveFirst(Tail(s), x)

RECURSIVE SelectSeq2(_, _)
\* the entries (v, nb, nbw) for the neighbours nb of v outside vis, in adjacency order
SelectSeq2(nbrs, vis) ==
    IF nbrs = <<>> THEN <<>>
    ELSE IF Head(nbrs)[1] \notin vis
         THEN <<Head(nbrs)>> \o SelectSeq2(Tail(nbrs), vis)
         ELSE SelectSeq2(Tail(nbrs), vis)

\* ------------------------------------------------------- find_path_in_mst
\* prev[start] = None
NoPrev == 0

RECURSIVE mst_adjacency(_, _)
\* adj.setdefault(u, []).append((v, w)); adj.setdefault(v, []).append((u, w))
mst_adjacency(adj, es) ==
    IF es = <<>> THEN adj
    ELSE LET u == Head(es)[1]
             v == Head(es)[2]
             w == Head(es)[3]
             a1 == AdjAppend(AdjEnsure(adj, u), u, <<v, w>>)
             a2 == AdjAppend(AdjEnsure(a1, v), v, <<u, w>>)
         IN mst_adjacency(a2, Tail(es))

\* adj.get(node, [])
AdjGet(adj, node) == IF node \in DOMAIN adj THEN adj[node] ELSE <<>>

RECURSIVE bfs_neighbours(_, _, _, _, _)
\* the for loop over adj.get(node, []): <<queue, prev>> when it ends or breaks
bfs_neighbours(nbrs, node, q, prev, target) ==
    IF nbrs = <<>> THEN <<q, prev>>
    ELSE LET nb == Head(nbrs)[1] IN
         IF nb \notin DOMAIN prev
         THEN IF nb = target
              THEN <<<<>>, prev @@ (nb :> node)>>
              ELSE bfs_neighbours(Tail(nbrs), node, Append(q, nb), prev @@ (nb :> node), target)
         ELSE bfs_neighbours(Tail(nbrs), node, q, prev, target)

RECURSIVE bfs(_, _, _, _)
\* while q: node = q.popleft() ...
bfs(adj, q, prev, target) ==
    IF q = <<>> THEN prev
    ELSE LET r == bfs_neighbours(AdjGet(adj, Head(q)), Head(q), Tail(q), prev, target)
         IN bfs(adj, r[1], r[2], target)

RECURSIVE prev_chain(_, _)
\* the predecessor chain target, prev[target], ... as appended to path
prev_chain(prev, cur) ==
    IF cur = NoPrev THEN <<>> ELSE <<cur>> \o prev_chain(prev, prev[cur])

Reversed_Forgotten(s) == s

\* list(reversed(path))
Reversed(s) == [i \in 1..Len(s) |-> s[Len(s) + 1 - i]]

RECURSIVE first_weight(_, _)
\* the weight of the first entry of nbrs naming b; nothing is added when there is none
first_weight(nbrs, b) ==
    IF nbrs = <<>> THEN 0
    ELSE IF Head(nbrs)[1] = b THEN Head(nbrs)[2] ELSE first_weight(Tail(nbrs), b)

RECURSIVE path_weight(_, _)
path_weight(adj, path) ==
    IF Len(path) < 2 THEN 0
    ELSE path_weight(adj, SubSeq(path, 1, Len(path) - 1))
         + first_weight(AdjGet(adj, path[Len(path) - 1]), path[Len(path)])

find_path_in_mst(es, s, t) ==
    LET adj == mst_adjacency(<<>>, es) IN
    IF s = t THEN <<<<s>>, 0>>
    ELSE LET prev == bfs(adj, <<s>>, (s :> NoPrev), t) IN
         IF t \notin DOMAIN prev THEN None
         ELSE LET path == Reversed(prev_chain(prev, t)) IN <<path, path_weight(adj, path)>>

\* ------------------------------------------------------------------ state
VARIABLES
    graph,          \* self.graph: vertex -> sequence of <<neighbour, weight>>
    start,          \* the start argument of run
    pc,             \* where the program is
    visited, mst_edges, total_weight, heap, step,   \* locals of run
    heap_snapshot,  \* the list printed at the top of the iteration
    popped,         \* the tuple (w, u, v) heappop returned
    out,            \* the lines printed by the current call of run
    result,         \* what run returned
    run_no,         \* 1 in the first call of run, 2 in the second
    first,          \* <<pc, result, out>> at the end of the first call
    arrival,        \* history: the heap's entries in push order
    before_pop,     \* history: arrival as it was before the last heappop
    fp_edges, fp_start, fp_target, fp_result    \* find_path_in_mst: arguments, result

vars == <<graph, start, pc, visited, mst_edges, total_weight, heap, step, heap_snapshot,
          popped, out, result, run_no, first, arrival, before_pop, fp_edges, fp_start, fp_target,
          fp_result>>

run_locals == <<visited, mst_edges, total_weight, heap, step, heap_snapshot, popped, arrival,
                before_pop>>
fp_vars == <<fp_edges, fp_start, fp_target, fp_result>>

\* ----------------------------------------------------------------- inputs
EdgeChoices == {e \in Vertices \X Vertices \X Weights : e[1] <= e[2]}
SimpleEdgeChoices == {e \in SimpleVertices \X SimpleVertices \X Weights : e[1] < e[2]}
PairLess(e, f) == e[1] < f[1] \/ (e[1] = f[1] /\ e[2] < f[2])

\* a document without a nodes field: any edge list, parallel edges and self-loops included
SeqDocs == {load_graph_from_json({}, es) : es \in SeqsUpTo(EdgeChoices, MaxEdges)}

SimplePairs == {p \in SimpleVertices \X SimpleVertices : p[1] < p[2]}

RECURSIVE EdgeListOf(_, _)
\* the edges of the pairs P that wf gives a weight (0: no edge), in ascending pair order
EdgeListOf(wf, P) ==
    IF P = {} THEN <<>>
    ELSE LET p == CHOOSE x \in P : \A y \in P : x = y \/ PairLess(x, y)
         IN (IF wf[p] = 0 THEN <<>> ELSE <<<<p[1], p[2], wf[p]>>>>) \o EdgeListOf(wf, P \ {p})

\* a document that declares every node and lists a simple graph
SimpleDocs ==
    {load_graph_from_json(SimpleVertices, EdgeListOf(wf, SimplePairs)) :
        wf \in [SimplePairs -> 0..MaxW]}

Endpoints(es) == {es[i][1] : i \in DOMAIN es} \cup {es[i][2] : i \in DOMAIN es}

RECURSIVE Reach(_, _)
\* the vertices joined to those of S by edges of es
Reach(es, S) ==
    LET T == S \cup {es[i][2] : i \in {j \in DOMAIN es : es[j][1] \in S}}
               \cup {es[i][1] : i \in {j \in DOMAIN es : es[j][2] \in S}}
    IN IF T = S THEN S ELSE Reach(es, T)

\* no edge of es joins two vertices the edges before it already join
IsForest(es) ==
    \A i \in DOMAIN es :
        /\ es[i][1] # es[i][2]
        /\ es[i][2] \notin Reach(SubSeq(es, 1, i - 1), {es[i][1]})

PathEdgeLists == {es \in SeqsUpTo(SimpleEdgeChoices, MaxPathEdges) : IsForest(es)}

\* the program has started and has read nothing yet
Init ==
    /\ graph = load_graph_from_json({}, <<>>)
    /\ start = NoPrev
    /\ pc = "boot"
    /\ visited = {} /\ mst_edges = <<>> /\ total_weight = 0 /\ heap = <<>> /\ step = 0
    /\ heap_snapshot = None /\ popped = None /\ arrival = <<>> /\ before_pop = <<>>
    /\ out = <<>> /\ result = None /\ run_no = 1 /\ first = None
    /\ fp_edges = None /\ fp_start = NoPrev /\ fp_target = NoPrev /\ fp_result = None

\* main: the document is loaded, PrimSimulator(graph) is built, run is about to be called
LoadSeqDoc ==
    /\ pc = "boot"
    /\ graph' \in SeqDocs
    /\ start' \in Vertices
    /\ pc' = "call"
    /\ UNCHANGED <<run_locals, out, result, run_no, first, fp_vars>>

LoadSimpleDoc ==
    /\ pc = "boot"
    /\ graph' \in SimpleDocs
    /\ start' \in SimpleVertices
    /\ pc' = "call"
    /\ UNCHANGED <<run_locals, out, result, run_no, first, fp_vars>>

\* find_path_in_mst is about to be called on an edge list of its own
PathInput ==
    /\ pc = "boot"
    /\ fp_edges' \in PathEdgeLists
    /\ fp_start' \in SimpleVertices
    /\ fp_target' \in SimpleVertices
    /\ pc' = "fp_call"
    /\ UNCHANGED <<graph, start, run_locals, out, result, run_no, first, fp_result>>

\* ---------------------------------------------------------- PrimSimulator.run
\* the tuples with the two vertices in each other's place
Entries_Swapped(u, nbrs) == [i \in 1..Len(nbrs) |-> <<nbrs[i][2], nbrs[i][1], u>>]

\* the tuples pushed for the adjacency entries nbrs of vertex u
Entries(u, nbrs) == [i \in 1..Len(nbrs) |-> <<nbrs[i][2], u, nbrs[i][1]>>]

\* (u, v, w) as printed: the tuple (w, u, v) reordered
Shown(e) == <<e[2], e[3], e[1]>>

LoopCondition == heap # <<>> /\ Cardinality(visited) < Cardinality(DOMAIN graph)

\* the start line is printed before the start vertex is looked up
RunRaise_AfterPrint ==
    /\ pc = "call"
    /\ start \notin DOMAIN graph
    /\ out' = <<<<"Inicio", start>>>>
    /\ pc' = "raised"
    /\ UNCHANGED <<graph, start, run_locals, result, run_no, first, fp_vars>>

RunRaise ==
    /\ pc = "call"
    /\ start \notin DOMAIN graph
    /\ pc' = "raised"
    /\ UNCHANGED <<graph, start, run_locals, out, result, run_no, first, fp_vars>>

\* visited outlives the call, as an attribute of the simulator would
RunInit_KeepsVisited ==
    /\ pc = "call"
    /\ start \in DOMAIN graph
    /\ visited' = visited \cup {start}
    /\ mst_edges' = <<>>
    /\ total_weight' = 0
    /\ heap' = PushAll(<<>>, Entries(start, graph[start]))
    /\ arrival' = Entries(start, graph[start])
    /\ before_pop' = <<>>
    /\ step' = 1
    /\ heap_snapshot' = None
    /\ popped' = None
    /\ out' = <<<<"Inicio", start>>, <<"Nodos", Cardinality(DOMAIN graph)>>>>
    /\ pc' = "loop"
    /\ UNCHANGED <<graph, start, result, run_no, first, fp_vars>>

RunInit ==
    /\ pc = "call"
    /\ start \in DOMAIN graph
    /\ visited' = {start}
    /\ mst_edges' = <<>>
    /\ total_weight' = 0
    /\ heap' = PushAll(<<>>, Entries(start, graph[start]))
    /\ arrival' = Entries(start, graph[start])
    /\ before_pop' = <<>>
    /\ step' = 1
    /\ heap_snapshot' = None
    /\ popped' = None
    /\ out' = <<<<"Inicio", start>>, <<"Nodos", Cardinality(DOMAIN graph)>>>>
    /\ pc' = "loop"
    /\ UNCHANGED <<graph, start, result, run_no, first, fp_vars>>

\* the heap list is printed as it lies, unsorted
Snapshot_Unsorted ==
    /\ pc = "loop"
    /\ LoopCondition
    /\ heap_snapshot' = [i \in 1..Len(heap) |-> Shown(heap[i])]
    /\ out' = Append(out, <<"Step", step, heap_snapshot'>>)
    /\ pc' = "pop"
    /\ UNCHANGED <<graph, start, visited, mst_edges, total_weight, heap, step, popped,
                   result, run_no, first, arrival, before_pop, fp_vars>>

Snapshot ==
    /\ pc = "loop"
    /\ LoopCondition
    /\ heap_snapshot' = [i \in 1..Len(heap) |-> Shown(sorted(heap)[i])]
    /\ out' = Append(out, <<"Step", step, heap_snapshot'>>)
    /\ pc' = "pop"
    /\ UNCHANGED <<graph, start, visited, mst_edges, total_weight, heap, step, popped,
                   result, run_no, first, arrival, before_pop, fp_vars>>

\* the stale entry is read at heap[0] and left in the heap
PopSkip_PeeksOnly ==
    /\ pc = "pop"
    /\ heap[1][3] \in visited
    /\ popped' = heap[1]
    /\ before_pop' = arrival
    /\ out' = Append(out, <<"omite", heap[1][2], heap[1][3]>>)
    /\ step' = step + 1
    /\ pc' = "loop"
    /\ UNCHANGED <<graph, start, visited, mst_edges, total_weight, heap, arrival,
                   heap_snapshot, result, run_no, first, fp_vars>>

\* the skip lacks its continue as far as the total goes: the weight is added
PopSkip_AddsWeight ==
    /\ pc = "pop"
    /\ LET r == heappop(heap) IN
        /\ r[1][3] \in visited
        /\ popped' = r[1]
        /\ before_pop' = arrival
        /\ heap' = r[2]
        /\ arrival' = RemoveFirst(arrival, r[1])
        /\ out' = Append(out, <<"omite", r[1][2], r[1][3]>>)
        /\ total_weight' = total_weight + r[1][1]
    /\ step' = step + 1
    /\ pc' = "loop"
    /\ UNCHANGED <<graph, start, visited, mst_edges, heap_snapshot,
                   result, run_no, first, fp_vars>>

PopSkip ==
    /\ pc = "pop"
    /\ LET r == heappop(heap) IN
        /\ r[1][3] \in visited
        /\ popped' = r[1]
        /\ before_pop' = arrival
        /\ heap' = r[2]
        /\ arrival' = RemoveFirst(arrival, r[1])
        /\ out' = Append(out, <<"omite", r[1][2], r[1][3]>>)
    /\ step' = step + 1
    /\ pc' = "loop"
    /\ UNCHANGED <<graph, start, visited, mst_edges, total_weight, heap_snapshot,
                   result, run_no, first, fp_vars>>

PopSelect ==
    /\ pc = "pop"
    /\ LET r == heappop(heap)
           w == r[1][1]
           u == r[1][2]
           v == r[1][3]
           added == Entries(v, SelectSeq2(graph[v], visited \cup {v}))
       IN
        /\ v \notin visited
        /\ popped' = r[1]
        /\ before_pop' = arrival
        /\ visited' = visited \cup {v}
        /\ mst_edges' = Append(mst_edges, <<u, v, w>>)
        /\ total_weight' = total_weight + w
        /\ heap' = PushAll(r[2], added)
        /\ arrival' = RemoveFirst(arrival, r[1]) \o added
        /\ out' = out \o <<<<"Seleccionada", u, v, w, SortedSet(visited'), mst_edges',
                             total_weight'>>,
                           IF added # <<>>
                           THEN <<"anadidas", v, [i \in 1..Len(added) |-> Shown(added[i])]>>
                           ELSE <<"sin aristas nuevas", v>>>>
    /\ step' = step + 1
    /\ pc' = "loop"
    /\ UNCHANGED <<graph, start, heap_snapshot, result, run_no, first, fp_vars>>

\* disconnection is told by entries left in the heap
Finish_WarnsOnLeftoverHeap ==
    /\ pc = "loop"
    /\ ~LoopCondition
    /\ out' = out \o <<<<IF heap # <<>> THEN "Advertencia" ELSE "Completado">>,
                       <<"Peso", total_weight>>, <<"Aristas", mst_edges>>>>
    /\ result' = <<mst_edges, total_weight>>
    /\ pc' = "done"
    /\ UNCHANGED <<graph, start, run_locals, run_no, first, fp_vars>>

Finish ==
    /\ pc = "loop"
    /\ ~LoopCondition
    /\ out' = out \o <<<<IF Cardinality(visited) # Cardinality(DOMAIN graph)
                         THEN "Advertencia" ELSE "Completado">>,
                       <<"Peso", total_weight>>, <<"Aristas", mst_edges>>>>
    /\ result' = <<mst_edges, total_weight>>
    /\ pc' = "done"
    /\ UNCHANGED <<graph, start, run_locals, run_no, first, fp_vars>>

\* run is called again on the same PrimSimulator with the same start
SecondCall ==
    /\ pc \in {"done", "raised"}
    /\ run_no = 1
    /\ first' = <<pc, result, out>>
    /\ run_no' = 2
    /\ out' = <<>>
    /\ result' = None
    /\ pc' = "call"
    /\ UNCHANGED <<graph, start, run_locals, fp_vars>>

\* main, interactive mode: the path from start to a target of the graph in the result
MainFindPath ==
    /\ pc = "done"
    /\ \E target \in DOMAIN graph :
        /\ fp_edges' = result[1]
        /\ fp_start' = start
        /\ fp_target' = target
        /\ fp_result' = find_path_in_mst(result[1], start, target)
    /\ pc' = "path_done"
    /\ UNCHANGED <<graph, start, run_locals, out, result, run_no, first>>

\* find_path_in_mst called on an edge list of its own
FindPathCall ==
    /\ pc = "fp_call"
    /\ fp_result' = find_path_in_mst(fp_edges, fp_start, fp_target)
    /\ pc' = "path_done"
    /\ UNCHANGED <<graph, start, run_locals, out, result, run_no, first,
                   fp_edges, fp_start, fp_target>>

Next ==
    \/ LoadSeqDoc
    \/ LoadSimpleDoc
    \/ PathInput
    \/ RunRaise
    \/ RunInit
    \/ Snapshot
    \/ PopSkip
    \/ PopSelect
    \/ Finish
    \/ SecondCall
    \/ MainFindPath
    \/ FindPathCall

Spec == Init /\ [][Next]_vars

\* the program is sequential and nothing blocks it (pause is off): while it has
\* not ended, its next statement is executed.  Every state with pc in Running
\* has a step of Next (the guards of the actions at each pc cover all cases),
\* and every such step changes pc.
Running == {"boot", "call", "loop", "pop", "fp_call"}
Advance ==
    /\ pc \in Running
    /\ pc' \in {"call", "raised", "loop", "pop", "done", "path_done", "fp_call"}
    /\ pc' # pc
FairSpec == Spec /\ WF_pc(Advance)

TypeOK == pc \in {"boot", "call", "raised", "loop", "pop", "done", "path_done", "fp_call"}

\* ------------------------------------------------- vocabulary of the claims
\* a state of a call of run on a graph that has the start vertex
InRun == pc \in {"loop", "pop", "done"}

\* the graph's adjacency entries as (u, v, w) edges, one per direction
AdjEdges(g) == UNION {{<<u, g[u][i][1], g[u][i][2]>> : i \in DOMAIN g[u]} : u \in DOMAIN g}

RECURSIVE GraphReach(_, _)
\* the vertices the graph joins to those of S
GraphReach(g, S) ==
    LET T == S \cup {e[2] : e \in {x \in AdjEdges(g) : x[1] \in S}}
    IN IF T = S THEN S ELSE GraphReach(g, T)

Component(g, s) == GraphReach(g, {s})

Connected(g) == DOMAIN g # {} /\ \A s \in DOMAIN g : Component(g, s) = DOMAIN g

\* no self-loop and no two edges between the same two vertices
IsSimple(g) ==
    \A u \in DOMAIN g : \A i \in DOMAIN g[u] :
        /\ g[u][i][1] # u
        /\ \A j \in DOMAIN g[u] : g[u][i][1] = g[u][j][1] => i = j

\* the edges of a simple graph, each once
UndirectedEdges(g) == {e \in AdjEdges(g) : e[1] < e[2]}

RECURSIVE SetWeight(_)
SetWeight(T) ==
    IF T = {} THEN 0 ELSE LET e == CHOOSE x \in T : TRUE IN e[3] + SetWeight(T \ {e})

RECURSIVE SetReach(_, _)
SetReach(T, S) ==
    LET R == S \cup {e[2] : e \in {x \in T : x[1] \in S}} \cup {e[1] : e \in {x \in T : x[2] \in S}}
    IN IF R = S THEN S ELSE SetReach(T, R)

\* reference: every spanning tree of a simple graph, and the least weight among them
SpanningTrees(g) ==
    {T \in SUBSET UndirectedEdges(g) :
        /\ Cardinality(T) = Cardinality(DOMAIN g) - 1
        /\ \A s \in DOMAIN g : SetReach(T, {s}) = DOMAIN g}

MSTWeight(g) ==
    LET ws == {SetWeight(T) : T \in SpanningTrees(g)}
    IN CHOOSE m \in ws : \A x \in ws : m <= x

Count(seq, x) == Cardinality({i \in DOMAIN seq : seq[i] = x})

Events(kind) == {i \in DOMAIN out : out[i][1] = kind}

\* the vertices on the tree side after the first n selections
TreeSide(n) == {start} \cup {mst_edges[j][2] : j \in 1..n}

\* --------------------------------------------------------------------- C1
\* C1: on a connected simple graph, run from a vertex of the graph returns
\* |V|-1 edges of the graph whose weights sum to the returned total, and that
\* total is the least weight of any spanning tree of the graph.
C1_PrimReturnsMinimumSpanningTree ==
    (pc = "done" /\ IsSimple(graph) /\ Connected(graph)) =>
        /\ Len(result[1]) = Cardinality(DOMAIN graph) - 1
        /\ \A i \in DOMAIN result[1] : result[1][i] \in AdjEdges(graph)
        /\ result[2] = SumWeights(result[1])
        /\ result[2] = MSTWeight(graph)

\* a connected simple graph on every vertex with a cycle and a heavier spanning tree
C1_Witness ==
    /\ pc = "done" /\ IsSimple(graph) /\ Connected(graph)
    /\ Cardinality(DOMAIN graph) = NumSimpleV
    /\ Cardinality(UndirectedEdges(graph)) > NumSimpleV
    /\ \E T \in SpanningTrees(graph) : SetWeight(T) > result[2]

\* --------------------------------------------------------------------- C2
Disconnected == start \in DOMAIN graph /\ Component(graph, start) # DOMAIN graph

\* C2 (safety part): on a disconnected graph no vertex outside the start's
\* component is visited or selected, and at the end Visited is that component,
\* the edges number one fewer than its vertices, and the warning is printed.
C2_ForestOfStartComponent ==
    (InRun /\ Disconnected) =>
        /\ visited \subseteq Component(graph, start)
        /\ Endpoints(mst_edges) \subseteq Component(graph, start)
        /\ pc = "done" =>
            /\ visited = Component(graph, start)
            /\ Len(result[1]) = Cardinality(Component(graph, start)) - 1
            /\ Cardinality(Events("Advertencia")) = 1
            /\ Events("Completado") = {}

\* C2: the safety part in every state, and a run on a disconnected graph ends.
C2_DisconnectedRun ==
    /\ [](C2_ForestOfStartComponent)
    /\ (pc = "call" /\ Disconnected) ~> (pc = "done")

C2_Witness ==
    /\ pc = "done" /\ Disconnected
    /\ Cardinality(visited) >= 2
    /\ Cardinality(DOMAIN graph \ visited) >= 2

\* --------------------------------------------------------------------- C3
\* what is left to do: the heap's entries, and for every unvisited vertex its
\* selection and the pushes that may follow
LoopMeasure ==
    LET U == DOMAIN graph \ visited
        f[S \in SUBSET U] ==
            IF S = {} THEN 0
            ELSE LET v == CHOOSE x \in S : TRUE IN 1 + Len(graph[v]) + f[S \ {v}]
    IN Len(heap) + f[U]

\* an iteration: one entry leaves the heap, entries enter only with a new vertex
IterationShrinks ==
    (pc = "pop" /\ pc' = "loop") =>
        /\ LoopMeasure' < LoopMeasure
        /\ visited' = visited => Len(heap') = Len(heap) - 1
        /\ Len(heap') >= Len(heap) => Cardinality(visited') = Cardinality(visited) + 1

\* C3: from a valid start the loop of run ends, on any graph: each iteration
\* pops one entry, pushes only when it visits a new vertex, and the loop is
\* left with an empty heap or with every vertex visited.
C3_LoopTerminates ==
    /\ (pc = "call" /\ start \in DOMAIN graph) ~> (pc = "done")
    /\ [][IterationShrinks]_vars
    /\ [](pc = "done" => (heap = <<>> \/ Cardinality(visited) = Cardinality(DOMAIN graph)))
    /\ [](pc = "pop" => heap # <<>>)

\* a finished run on a graph with a self-loop or parallel edges that skipped an entry
C3_Witness ==
    /\ pc = "done" /\ ~IsSimple(graph)
    /\ Events("omite") # {}
    /\ Cardinality(visited) >= 2

\* --------------------------------------------------------------------- C4
\* C4: the second call of run on the same object with the same start ends as
\* the first did, with the same edge list and total and the same printed lines.
C4_SecondRunIdentical ==
    (run_no = 2 /\ pc \in {"done", "raised"}) => first = <<pc, result, out>>

C4_Witness ==
    /\ run_no = 2 /\ pc = "done"
    /\ Len(mst_edges) >= 2
    /\ Events("omite") # {}

\* --------------------------------------------------------------------- C5
\* the weight of the edge of es that joins a and b
EdgeWeight(es, a, b) ==
    LET i == CHOOSE j \in DOMAIN es : {es[j][1], es[j][2]} = {a, b} IN es[i][3]

Joined(es, a, b) == \E j \in DOMAIN es : {es[j][1], es[j][2]} = {a, b}

RECURSIVE TreePathWeight(_, _)
TreePathWeight(es, p) ==
    IF Len(p) < 2 THEN 0
    ELSE EdgeWeight(es, p[1], p[2]) + TreePathWeight(es, Tail(p))

\* p is the simple path from s to t in es
IsTreePath(es, s, t, p) ==
    /\ Len(p) >= 1 /\ p[1] = s /\ p[Len(p)] = t
    /\ \A i, j \in DOMAIN p : p[i] = p[j] => i = j
    /\ \A i \in 1..(Len(p) - 1) : Joined(es, p[i], p[i + 1])

\* C5: on a forest find_path_in_mst returns None exactly when the target is
\* another vertex that the edges do not join to start, and otherwise the simple
\* path from start to target with the sum of its edges' weights.
C5_FindPathIsTreePath ==
    (pc = "path_done" /\ IsForest(fp_edges)) =>
        IF fp_start # fp_target /\ fp_target \notin Reach(fp_edges, {fp_start})
        THEN fp_result = None
        ELSE /\ fp_result # None
             /\ IsTreePath(fp_edges, fp_start, fp_target, fp_result[1])
             /\ fp_result[2] = TreePathWeight(fp_edges, fp_result[1])
             /\ fp_start = fp_target => fp_result = <<<<fp_start>>, 0>>

\* a path of three vertices or more in a forest that has an edge off the path
C5_Witness ==
    /\ pc = "path_done" /\ IsForest(fp_edges)
    /\ fp_result # None
    /\ Len(fp_result[1]) >= 3
    /\ Len(fp_edges) >= Len(fp_result[1])

\* --------------------------------------------------------------------- C6
UnknownStart == start # NoPrev /\ start \notin DOMAIN graph

\* C6: with a start that is no key of the graph, run raises and nothing else:
\* no local is set, no line is printed, nothing is returned.
C6_UnknownStartRaisesFirst ==
    UnknownStart =>
        /\ pc \in {"call", "raised"}
        /\ out = <<>> /\ result = None
        /\ visited = {} /\ heap = <<>> /\ mst_edges = <<>> /\ step = 0
        /\ heap_snapshot = None /\ popped = None

C6_Witness == UnknownStart /\ pc = "raised" /\ run_no = 2 /\ DOMAIN graph # {}

\* --------------------------------------------------------------------- C7
\* the printed snapshot is the heap's entries in ascending tuple order
SnapshotIsSortedHeap ==
    /\ Len(heap_snapshot) = Len(heap)
    /\ \A i \in DOMAIN heap : Count(heap_snapshot, Shown(heap[i])) = Count(heap, heap[i])
    /\ \A i \in 1..(Len(heap_snapshot) - 1) :
        LET a == heap_snapshot[i]
            b == heap_snapshot[i + 1]
        IN ~TupleLess(<<b[3], b[1], b[2]>>, <<a[3], a[1], a[2]>>)

\* C7: the snapshot of an iteration lists the whole heap in ascending
\* (weight, u, v) order and leaves the heap as it was, and the entry popped in
\* that iteration is the snapshot's first entry.
C7_PopIsSnapshotHead ==
    /\ [](pc = "pop" => SnapshotIsSortedHeap)
    /\ [][(pc = "loop" /\ pc' = "pop") => heap' = heap]_vars
    /\ [][(pc = "pop" /\ pc' = "loop") =>
            /\ Shown(popped') = heap_snapshot[1]
            /\ \A i \in DOMAIN heap : ~TupleLess(heap[i], popped')
            /\ \A i \in DOMAIN heap : Count(heap', heap[i]) >= Count(heap, heap[i]) - (IF heap[i] = popped' THEN 1 ELSE 0)]_vars

\* a pop from a heap of four entries or more that left a heap whose root has two children
C7_Witness ==
    /\ pc = "loop" /\ popped # None
    /\ Len(before_pop) >= 4
    /\ Shown(popped) = heap_snapshot[1]
    /\ Len(heap) >= 3

\* --------------------------------------------------------------------- C8
MinWeight(es) == CHOOSE m \in {es[i][1] : i \in DOMAIN es} : \A i \in DOMAIN es : m <= es[i][1]

\* the entry of least weight that was pushed first
FirstPushedOfMinWeight(es) ==
    es[CHOOSE i \in DOMAIN es :
        /\ es[i][1] = MinWeight(es)
        /\ \A j \in DOMAIN es : es[j][1] = MinWeight(es) => i <= j]

\* C8 as stated: among the entries of least weight the one pushed first is popped.
C8_TiesByInsertionOrder ==
    popped # None => popped = FirstPushedOfMinWeight(before_pop)

\* C8 amended: the popped entry has the least weight, and among the entries of
\* that weight the least (u, v); the order of the pushes plays no part.
C8_TiesByTupleOrder ==
    popped # None =>
        /\ Count(before_pop, popped) >= 1
        /\ popped[1] = MinWeight(before_pop)
        /\ \A i \in DOMAIN before_pop :
            before_pop[i][1] = popped[1] =>
                \/ popped[2] < before_pop[i][2]
                \/ popped[2] = before_pop[i][2] /\ popped[3] <= before_pop[i][3]

\* the popped entry was pushed after another entry of the same least weight
C8_Witness ==
    /\ popped # None
    /\ popped # FirstPushedOfMinWeight(before_pop)
    /\ Len(before_pop) >= 3

TreeInvariant ==
    InRun =>
        /\ Len(mst_edges) = Cardinality(visited) - 1
        /\ visited = TreeSide(Len(mst_edges))
        /\ IsForest(mst_edges)
        /\ Reach(mst_edges, {start}) = visited
        /\ \A i \in DOMAIN mst_edges :
            /\ mst_edges[i][1] \in TreeSide(i - 1)
            /\ mst_edges[i][2] \notin TreeSide(i - 1)
            /\ mst_edges[i] \in AdjEdges(graph)
        /\ total_weight = SumWeights(mst_edges)

\* within a call Visited only grows; a skip changes none of the three and pushes nothing
TreeStep ==
    /\ pc # "call" => visited \subseteq visited'
    /\ (pc = "pop" /\ popped'[3] \in visited) =>
        /\ UNCHANGED <<visited, mst_edges, total_weight>>
        /\ Len(heap') = Len(heap) - 1
    /\ (pc = "pop" /\ popped'[3] \notin visited) =>
        /\ popped'[2] \in visited
        /\ visited' = visited \cup {popped'[3]}
        /\ mst_edges' = Append(mst_edges, <<popped'[2], popped'[3], popped'[1]>>)

\* C10: during and after run the selected edges form a tree on Visited, each
\* chosen from the tree side to a new vertex, with total_weight their sum;
\* Visited only grows, and a skipped entry changes nothing and pushes nothing.
C10_TreeInvariant == [](TreeInvariant) /\ [][TreeStep]_vars

\* a skip in mid-run, two edges selected and more vertices to come
C10_Witness ==
    /\ pc = "loop" /\ LoopCondition
    /\ out[Len(out)][1] = "omite"
    /\ Len(mst_edges) >= 2

====
